---- MODULE Spec2Model ----
(***************************************************************************)
(* A model of package round (src/round.go): rounding of 64-bit integers    *)
(* and time.Duration values to a multiple of a step or to n significant    *)
(* decimal figures.                                                        *)
(*                                                                         *)
(* Go's int64 / uint64 values are modelled bit-exactly.  A 64-bit word is  *)
(* a tuple of four 16-bit limbs, least significant first, so that every    *)
(* intermediate value of the arithmetic below stays under 2^31.  A word    *)
(* read as uint64 is the number l1 + l2*2^16 + l3*2^32 + l4*2^48; read as  *)
(* int64 it is the two's complement value of the same bits.                *)
(***************************************************************************)
EXTENDS Integers, Sequences, FiniteSets, TLC

\* ------------------------------------------------------------------------
\* 64-bit machine words
\* ------------------------------------------------------------------------

LimbBits == 16
Limb == 2^LimbBits
HalfLimb == 2^(LimbBits - 1)

Zero == <<0, 0, 0, 0>>
One == <<1, 0, 0, 0>>

\* The word of a small natural number k < 2^31.
W(k) == <<k % Limb, (k \div Limb) % Limb, 0, 0>>

\* Bitwise complement.
Not64(a) == <<Limb - 1 - a[1], Limb - 1 - a[2], Limb - 1 - a[3], Limb - 1 - a[4]>>

\* The carry out of a + b (0 or 1): a + b does not fit 64 bits.
UCarry(a, b) ==
  LET s1 == a[1] + b[1]
      s2 == a[2] + b[2] + (s1 \div Limb)
      s3 == a[3] + b[3] + (s2 \div Limb)
      s4 == a[4] + b[4] + (s3 \div Limb)
  IN  s4 \div Limb

\* a + b modulo 2^64 (Go's + on uint64, and on int64 with wrap-around).
UAdd(a, b) ==
  LET s1 == a[1] + b[1]
      s2 == a[2] + b[2] + (s1 \div Limb)
      s3 == a[3] + b[3] + (s2 \div Limb)
      s4 == a[4] + b[4] + (s3 \div Limb)
  IN  <<s1 % Limb, s2 % Limb, s3 % Limb, s4 % Limb>>

\* -a modulo 2^64 (Go's unary minus; -MinInt64 = MinInt64).
Neg(a) == UAdd(Not64(a), One)

\* a - b modulo 2^64.
USub(a, b) == UAdd(a, Neg(b))

\* a < b as uint64.
ULess(a, b) ==
  \/ a[4] < b[4]
  \/ a[4] = b[4] /\ a[3] < b[3]
  \/ a[4] = b[4] /\ a[3] = b[3] /\ a[2] < b[2]
  \/ a[4] = b[4] /\ a[3] = b[3] /\ a[2] = b[2] /\ a[1] < b[1]

ULeq(a, b) == ~ULess(b, a)

\* The sign bit of a word read as int64.
IsNeg(a) == a[4] >= HalfLimb

\* a < b as int64.
SLess(a, b) ==
  IF IsNeg(a) # IsNeg(b) THEN IsNeg(a) ELSE ULess(a, b)

SLeq(a, b) == ~SLess(b, a)

\* a * k modulo 2^64 for a multiplier k < 2^15.
UMulSmall(a, k) ==
  LET p1 == a[1] * k
      p2 == a[2] * k + (p1 \div Limb)
      p3 == a[3] * k + (p2 \div Limb)
      p4 == a[4] * k + (p3 \div Limb)
  IN  <<p1 % Limb, p2 % Limb, p3 % Limb, p4 % Limb>>

\* a shifted left by j limbs, modulo 2^64.
ShlLimbs(a, j) ==
  [i \in 1..4 |-> IF i - j >= 1 THEN a[i - j] ELSE 0]

\* a * k modulo 2^64 for a one-limb multiplier k: k = kh*2^8 + kl.
UMulLimb(a, k) ==
  UAdd(UMulSmall(a, k % 256), UMulSmall(UMulSmall(a, k \div 256), 256))

\* a * b modulo 2^64 (Go's * on uint64 and on int64).
UMul(a, b) ==
  UAdd(UAdd(UMulLimb(a, b[1]), ShlLimbs(UMulLimb(a, b[2]), 1)),
       UAdd(ShlLimbs(UMulLimb(a, b[3]), 2), ShlLimbs(UMulLimb(a, b[4]), 3)))

\* Bit i (0..63) of a.
Bit(a, i) == (a[(i \div LimbBits) + 1] \div (2^(i % LimbBits))) % 2

\* 2a + c modulo 2^64, for a bit c.
Shl1(a, c) ==
  LET s1 == 2 * a[1] + c
      s2 == 2 * a[2] + (s1 \div Limb)
      s3 == 2 * a[3] + (s2 \div Limb)
      s4 == 2 * a[4] + (s3 \div Limb)
  IN  <<s1 % Limb, s2 % Limb, s3 % Limb, s4 % Limb>>

\* The number of bits of a: 0 for zero, else 1 + the index of the top set bit.
BitLen(a) ==
  IF a = Zero THEN 0
  ELSE LET j == CHOOSE i \in 1..4 : a[i] # 0 /\ \A h \in (i + 1)..4 : a[h] = 0
           k == CHOOSE i \in 1..LimbBits : 2^(i - 1) <= a[j] /\ a[j] < 2^i
       IN  LimbBits * (j - 1) + k

\* Unsigned long division, bit by bit from bit i of the dividend a down to
\* bit 0: qr = <<quotient so far, remainder so far>>, nb = -b.  The
\* remainder is kept below b; when doubling it carries out of 64 bits it
\* is above b and the wrapped subtraction is exact.
RECURSIVE UDivStep(_, _, _, _, _)
UDivStep(a, b, nb, i, qr) ==
  IF i < 0 THEN qr
  ELSE LET r2 == Shl1(qr[2], Bit(a, i))
       IN  IF qr[2][4] >= HalfLimb \/ ULeq(b, r2)
           THEN UDivStep(a, b, nb, i - 1, <<Shl1(qr[1], 1), UAdd(r2, nb)>>)
           ELSE UDivStep(a, b, nb, i - 1, <<Shl1(qr[1], 0), r2>>)

\* Division by a divisor k < 2^15, limb by limb from the top.
UDivModSmall(a, k) ==
  LET t4 == a[4]
      t3 == (t4 % k) * Limb + a[3]
      t2 == (t3 % k) * Limb + a[2]
      t1 == (t2 % k) * Limb + a[1]
  IN  <<(<<t1 \div k, t2 \div k, t3 \div k, t4 \div k>>), W(t1 % k)>>

\* <<a / b, a % b>> as uint64, b # 0.
UDivMod(a, b) ==
  IF b[4] = 0 /\ b[3] = 0 /\ b[2] = 0 /\ b[1] < HalfLimb
  THEN UDivModSmall(a, b[1])
  ELSE UDivStep(a, b, Neg(b), BitLen(a) - 1, <<Zero, Zero>>)

UDiv(a, b) == UDivMod(a, b)[1]
URem(a, b) == UDivMod(a, b)[2]

\* |a| of a word read as int64, as a uint64 (|MinInt64| = 2^63).
Mag(a) == IF IsNeg(a) THEN Neg(a) ELSE a

\* a / b as int64: Go truncates toward zero (MinInt64 / -1 wraps).
SDiv(a, b) ==
  LET q == UDiv(Mag(a), Mag(b))
  IN  IF IsNeg(a) # IsNeg(b) THEN Neg(q) ELSE q

\* a % b as int64: the remainder has the sign of the dividend.
SRem(a, b) ==
  LET r == URem(Mag(a), Mag(b))
  IN  IF IsNeg(a) THEN Neg(r) ELSE r

MinInt64 == <<0, 0, 0, HalfLimb>>
MaxInt64 == <<Limb - 1, Limb - 1, Limb - 1, HalfLimb - 1>>
MaxUint64 == <<Limb - 1, Limb - 1, Limb - 1, Limb - 1>>


\* ------------------------------------------------------------------------
\* Package constants and the power-of-ten table
\* ------------------------------------------------------------------------

\* time.Nanosecond .. time.Hour as int64 nanosecond counts.
millisecond == UMul(W(1000), W(1000))
second == UMul(W(1000), millisecond)
minute == UMul(W(60), second)
hour == UMul(W(60), minute)

pow10tabLen == 20

\* func init: pow10tab[0] = 1; pow10tab[e] = 10 * pow10tab[e-1].
RECURSIVE pow10init(_, _)
pow10init(tab, e) ==
  IF e >= pow10tabLen THEN tab
  ELSE pow10init(tab @@ (e :> UMul(W(10), tab[e - 1])), e + 1)

pow10tab == pow10init((0 :> One), 1)

\* The outcome of a call: a returned word, or a run-time panic (index out
\* of range).  es is the set of exponents the call handed to i64pow10 /
\* u64pow10.
Ok(w, es) == [st |-> "ok", val |-> w, es |-> es]
Panic(es) == [st |-> "panic", val |-> Zero, es |-> es]

\* int64(pow10tab[e]): the same 64 bits, read as two's complement.
ToInt64(u) == u

\* func i64pow10(b int64, e int) int64
i64pow10(b, e) ==
  IF e < 0
  THEN IF -e \in DOMAIN pow10tab
       THEN Ok(SDiv(b, ToInt64(pow10tab[-e])), {e})
       ELSE Panic({e})
  ELSE IF e \in DOMAIN pow10tab
       THEN Ok(UMul(b, ToInt64(pow10tab[e])), {e})
       ELSE Panic({e})

\* func u64pow10(b uint64, e int) uint64
u64pow10(b, e) ==
  IF e < 0
  THEN IF -e \in DOMAIN pow10tab
       THEN Ok(UDiv(b, pow10tab[-e]), {e})
       ELSE Panic({e})
  ELSE IF e \in DOMAIN pow10tab
       THEN Ok(UMul(b, pow10tab[e]), {e})
       ELSE Panic({e})

\* ------------------------------------------------------------------------
\* Digit counting
\* ------------------------------------------------------------------------

\* The loop of i64digits: for v > 9 { v /= 10; d++ } on an int64.
RECURSIVE i64digitsLoop(_, _)
i64digitsLoop(v, d) ==
  IF SLess(W(9), v) THEN i64digitsLoop(SDiv(v, W(10)), d + 1) ELSE d

\* func i64digits(v int64) int
i64digits(v) ==
  i64digitsLoop(IF SLess(v, Zero) THEN Neg(v) ELSE v, 1)

\* func u64digits(v uint64) int
RECURSIVE u64digitsLoop(_, _)
u64digitsLoop(v, d) ==
  IF ULess(W(9), v) THEN u64digitsLoop(UDiv(v, W(10)), d + 1) ELSE d

u64digits(v) == u64digitsLoop(v, 1)

\* ------------------------------------------------------------------------
\* Rounding to a step
\* ------------------------------------------------------------------------

\* Int64 with only the zero step recognised as "no rounding".
Int64ZeroStepOnly(v, n) ==
  IF n = Zero THEN v
  ELSE LET neg == SLess(v, Zero)
           a == IF neg THEN Neg(v) ELSE v
           r == SRem(a, n)
           b == IF SLess(UAdd(r, r), n)
                THEN USub(a, r)
                ELSE USub(UAdd(a, n), r)
       IN  IF neg THEN Neg(b) ELSE b

\* func Int64(v, n int64) int64
Int64(v, n) ==
  IF SLeq(n, One) THEN v
  ELSE LET neg == SLess(v, Zero)
           a == IF neg THEN Neg(v) ELSE v
           r == SRem(a, n)
           b == IF SLess(UAdd(r, r), n)
                THEN USub(a, r)
                ELSE USub(UAdd(a, n), r)
       IN  IF neg THEN Neg(b) ELSE b

\* func Uint64(v, n uint64) uint64
Uint64(v, n) ==
  IF ULeq(n, One) THEN v
  ELSE LET r == URem(v, n)
       IN  IF ULess(UAdd(r, r), n)
           THEN USub(v, r)
           ELSE USub(UAdd(v, n), r)

\* func Duration(d, n time.Duration) time.Duration
Duration(d, n) == Int64(d, n)

\* return Int64(v, i64pow10(b, e)): the step is the outcome p of the
\* table lookup, evaluated once, and a panic of the lookup ends the call
\* before Int64 is entered.
RoundTo(v, lookup) ==
  CHOOSE o \in {IF p.st = "panic" THEN p ELSE Ok(Int64(v, p.val), p.es) :
                  p \in {lookup}} : TRUE

\* return Uint64(v, u64pow10(b, e))
URoundTo(v, lookup) ==
  CHOOSE o \in {IF p.st = "panic" THEN p ELSE Ok(Uint64(v, p.val), p.es) :
                  p \in {lookup}} : TRUE

\* ------------------------------------------------------------------------
\* Rounding to n significant figures (n is a Go int)
\* ------------------------------------------------------------------------

\* func Int64N(v int64, n int) int64
Int64N(v, n) ==
  IF n <= 0 THEN Ok(v, {})
  ELSE LET e == i64digits(v) - n
       IN  IF e > 0 THEN RoundTo(v, i64pow10(One, e)) ELSE Ok(v, {})

\* func Uint64N(v uint64, n int) uint64
Uint64N(v, n) ==
  IF n <= 0 THEN Ok(v, {})
  ELSE LET e == u64digits(v) - n
       IN  IF e > 0 THEN URoundTo(v, u64pow10(One, e)) ELSE Ok(v, {})

\* DurationN from "v := int64(d)" on: d >= 0 and n > 0 here.
DurationNBody(v, n) ==
  IF SLeq(hour, v)
  THEN LET k == i64digits(SDiv(v, hour))
           n2 == n - k
           k2 == i64digits(SDiv(SRem(v, hour), minute))
       IN  IF k >= n THEN RoundTo(v, i64pow10(hour, k - n))
           ELSE IF k2 >= n2 THEN RoundTo(v, i64pow10(minute, k2 - n2))
           ELSE RoundTo(v, i64pow10(UMul(W(100), second), k2 - n2))
  ELSE IF SLeq(minute, v)
  THEN LET k == i64digits(SDiv(v, minute))
       IN  IF k >= n THEN RoundTo(v, i64pow10(minute, k - n))
           ELSE RoundTo(v, i64pow10(UMul(W(100), second), k - n))
  ELSE Int64N(v, n)

\* ------------------------------------------------------------------------
\* Inputs of the calls
\* ------------------------------------------------------------------------

MaxSmall == 6
MaxStep == 6
MaxSig == 5
MaxDepth == 4

microsecond == W(1000)

\* A duration written h, m, s and microseconds, in nanoseconds.
Dur(h, m, sec, us) ==
  UAdd(UAdd(UMul(W(h), hour), UMul(W(m), minute)),
       UAdd(UMul(W(sec), second), UMul(W(us), microsecond)))

SmallVals == {W(k) : k \in 0..MaxSmall} \cup {Neg(W(k)) : k \in 1..MaxSmall}

\* The values of the examples in the doc comments of Int64, Int64N, Uint64N.
DocVals == {W(7), W(123), Neg(W(420)), W(420), W(12895), W(4213), Neg(W(567))}

\* The ends of the int64 and uint64 ranges, and values with 19 and 20
\* decimal digits.
EdgeVals ==
  {MaxInt64, USub(MaxInt64, One), MinInt64, UAdd(MinInt64, One),
   USub(MaxUint64, One), pow10tab[18], USub(pow10tab[18], One),
   pow10tab[19], UMul(W(15), pow10tab[18])}

\* The durations of the examples in the doc comments of Duration, DurationN.
DocDurs ==
  {Dur(3, 25, 45, 600000), Dur(0, 0, 34, 560000), Dur(0, 0, 34, 567890),
   Neg(Dur(0, 1, 30, 0)), Dur(1, 35, 42, 567000), Dur(0, 0, 3, 789000),
   Dur(0, 0, 0, 1567), Neg(Dur(0, 0, 0, 41500))}

EdgeDurs ==
  {Zero, hour, minute, USub(minute, One), Dur(0, 59, 59, 999999),
   Dur(12, 0, 0, 0), Neg(Dur(1, 35, 42, 567000)), MaxInt64, MinInt64,
   UAdd(MinInt64, One)}

Values == SmallVals \cup DocVals \cup EdgeVals
Durs == DocDurs \cup EdgeDurs

\* Steps: the no-rounding steps (n <= 1), small steps, the steps of the
\* doc comments, and steps above half the range.
Steps ==
  {W(k) : k \in 0..MaxStep} \cup {Neg(W(1)), Neg(W(2)), MinInt64}
    \cup {W(10), W(25), pow10tab[14], USub(MaxInt64, One), MaxInt64,
          MaxUint64}

DurSteps ==
  {Zero, One, Neg(minute), UMul(W(500), millisecond), UMul(W(10), second),
   millisecond, minute, hour}

\* Digit counts: n <= 0, small counts, and counts around the table length.
Sigs == (-1..MaxSig) \cup {18, 19, 20, 21, 22, 29}

Fns == {"Int64", "Uint64", "Duration", "Int64N", "Uint64N", "DurationN",
        "i64digits", "u64digits"}

\* ------------------------------------------------------------------------
\* The calls
\* ------------------------------------------------------------------------

VARIABLES
  fn,     \* the function called, "none" before the call
  v,      \* its first argument
  n,      \* the step argument of Int64, Uint64, Duration
  sig,    \* the digit-count argument of Int64N, Uint64N, DurationN
  pc,     \* "idle", "run", "ret", "done", "panic" or "fatal"
  stack,  \* the d of each active DurationN frame, innermost last
  res,    \* the value returned (by the innermost returning frame)
  exps,   \* the exponents handed to i64pow10 / u64pow10 by the call
  round   \* 1 for a call, 2 for a second call on the first call's result

vars == <<fn, v, n, sig, pc, stack, res, exps, round>>

Init ==
  /\ fn = "none" /\ v = Zero /\ n = Zero /\ sig = 0
  /\ pc = "idle" /\ stack = <<>> /\ res = Zero /\ exps = {} /\ round = 0

\* A call that returns (or panics) without recursion: o is its outcome.
Finish(f, a, step, digits, o) ==
  /\ fn' = f /\ v' = a /\ n' = step /\ sig' = digits
  /\ pc' = IF o.st = "ok" THEN "done" ELSE "panic"
  /\ res' = o.val /\ exps' = o.es
  /\ stack' = <<>>

CallInt64 ==
  /\ pc = "idle"
  /\ \E a \in Values, step \in Steps :
       \E o \in {Ok(Int64(a, step), {})} : Finish("Int64", a, step, 0, o)
  /\ round' = 1

CallUint64 ==
  /\ pc = "idle"
  /\ \E a \in Values, step \in Steps :
       \E o \in {Ok(Uint64(a, step), {})} : Finish("Uint64", a, step, 0, o)
  /\ round' = 1

CallDuration ==
  /\ pc = "idle"
  /\ \E d \in Durs, step \in DurSteps :
       \E o \in {Ok(Duration(d, step), {})} :
          Finish("Duration", d, step, 0, o)
  /\ round' = 1

CallInt64N ==
  /\ pc = "idle"
  /\ \E a \in Values, digits \in Sigs :
       \E o \in {Int64N(a, digits)} : Finish("Int64N", a, Zero, digits, o)
  /\ round' = 1

CallUint64N ==
  /\ pc = "idle"
  /\ \E a \in Values, digits \in Sigs :
       \E o \in {Uint64N(a, digits)} : Finish("Uint64N", a, Zero, digits, o)
  /\ round' = 1

CallI64digits ==
  /\ pc = "idle"
  /\ \E a \in Values \cup Durs :
       \E o \in {Ok(W(i64digits(a)), {})} :
          Finish("i64digits", a, Zero, 0, o)
  /\ round' = 1

CallU64digits ==
  /\ pc = "idle"
  /\ \E a \in Values \cup Durs :
       \E o \in {Ok(W(u64digits(a)), {})} :
          Finish("u64digits", a, Zero, 0, o)
  /\ round' = 1

\* Rounding the result of Int64 / Uint64 once more to the same step.
Again ==
  /\ pc = "done" /\ round = 1 /\ fn \in {"Int64", "Uint64"}
  /\ \E o \in {Ok(IF fn = "Int64" THEN Int64(res, n) ELSE Uint64(res, n), {})} :
       Finish(fn, res, n, 0, o)
  /\ round' = 2

\* DurationN(d, n) is entered: its frame is pushed.
CallDurationN ==
  /\ pc = "idle"
  /\ \E d \in Durs, digits \in Sigs :
       /\ fn' = "DurationN" /\ v' = d /\ sig' = digits
       /\ stack' = <<d>>
  /\ pc' = "run" /\ round' = 1
  /\ UNCHANGED <<n, res, exps>>

Top == stack[Len(stack)]

\* if n <= 0 { return d }
DurationNUnchanged ==
  /\ pc = "run" /\ sig <= 0
  /\ res' = Top /\ pc' = "ret"
  /\ UNCHANGED <<fn, v, n, sig, stack, exps, round>>

\* if d < 0 { return -DurationN(-d, n) }: the recursive call is entered.
DurationNRecurse ==
  /\ pc = "run" /\ sig > 0 /\ SLess(Top, Zero)
  /\ Len(stack) < MaxDepth
  /\ stack' = Append(stack, Neg(Top))
  /\ UNCHANGED <<fn, v, n, sig, pc, res, exps, round>>

\* The same recursive call with the goroutine stack used up: the Go
\* run time ends the program (fatal error: stack overflow).
DurationNStackOverflow ==
  /\ pc = "run" /\ sig > 0 /\ SLess(Top, Zero)
  /\ Len(stack) >= MaxDepth
  /\ pc' = "fatal"
  /\ UNCHANGED <<fn, v, n, sig, stack, res, exps, round>>

\* The rest of the body, for d >= 0 and n > 0.
DurationNRound ==
  /\ pc = "run" /\ sig > 0 /\ ~SLess(Top, Zero)
  /\ \E o \in {DurationNBody(Top, sig)} :
       /\ pc' = IF o.st = "ok" THEN "ret" ELSE "panic"
       /\ res' = o.val /\ exps' = o.es
  /\ UNCHANGED <<fn, v, n, sig, stack, round>>

\* A frame returns: to the caller of DurationN, or to the frame below,
\* which negates the value and returns in turn.
DurationNReturn ==
  /\ pc = "ret"
  /\ stack' = SubSeq(stack, 1, Len(stack) - 1)
  /\ IF Len(stack) = 1
     THEN pc' = "done" /\ res' = res
     ELSE pc' = "ret" /\ res' = Neg(res)
  /\ UNCHANGED <<fn, v, n, sig, exps, round>>

Next ==
  \/ CallInt64
  \/ CallUint64
  \/ CallDuration
  \/ CallInt64N
  \/ CallUint64N
  \/ CallI64digits
  \/ CallU64digits
  \/ Again
  \/ CallDurationN
  \/ DurationNUnchanged
  \/ DurationNRecurse
  \/ DurationNStackOverflow
  \/ DurationNRound
  \/ DurationNReturn

Spec == Init /\ [][Next]_vars

TypeOK ==
  /\ fn \in Fns \cup {"none"}
  /\ pc \in {"idle", "run", "ret", "done", "panic", "fatal"}
  /\ Len(stack) <= MaxDepth
  /\ round \in 0..2

\* ------------------------------------------------------------------------
\* What the properties below speak of
\* ------------------------------------------------------------------------

\* The call has ended: it returned, panicked, or ran out of stack.
Ended == pc \in {"done", "panic", "fatal"}

\* The length of the decimal string of the unsigned number x (1..20):
\* one more than the number of powers 10^1 .. 10^19 that do not exceed x.
DecLen(x) == 1 + Cardinality({e \in 1..19 : ULeq(pow10tab[e], x)})

\* |x - y| for x, y read as int64, as an unsigned number (it fits 64 bits
\* unless x = y = MinInt64 have opposite signs, which cannot be).
SDist(x, y) ==
  IF IsNeg(x) = IsNeg(y)
  THEN IF ULess(Mag(x), Mag(y)) THEN USub(Mag(y), Mag(x))
                                ELSE USub(Mag(x), Mag(y))
  ELSE UAdd(Mag(x), Mag(y))

\* |x - y| for x, y read as uint64.
UDist(x, y) == IF ULess(x, y) THEN USub(y, x) ELSE USub(x, y)

Half(step) == UDiv(step, W(2))
IsEven(step) == step[1] % 2 = 0

SignedStepFn == fn \in {"Int64", "Duration"}

\* The step is valid (n > 1) for the function called.
ValidStep ==
  \/ SignedStepFn /\ SLess(One, n)
  \/ fn = "Uint64" /\ ULess(One, n)

\* The step means "no rounding" (n <= 1) for the function called.
NoRoundingStep ==
  \/ SignedStepFn /\ SLeq(n, One)
  \/ fn = "Uint64" /\ ULeq(n, One)

\* The functions whose value argument is a uint64.
UnsignedFn == fn \in {"Uint64", "Uint64N", "u64digits"}

\* The magnitudes |v| of the argument and |result| of the result, as
\* unsigned numbers.
ArgMag == IF UnsignedFn THEN v ELSE Mag(v)
ResMag == IF UnsignedFn THEN res ELSE Mag(res)

\* C1: the result of rounding to a valid step (n > 1) is an exact multiple
\* of the step, for Int64, Uint64 and Duration.
C1_ResultIsMultipleOfStep ==
  (pc = "done" /\ ValidStep) => URem(ResMag, n) = Zero

\* C2: Int64 and Uint64 return the multiple of n nearest to v: the
\* distance |result - v| is at most n/2, and equals n/2 only when the value
\* was rounded up in magnitude.
C2_ResultIsNearest ==
  (pc = "done" /\ ValidStep) =>
    LET dist == IF UnsignedFn THEN UDist(res, v) ELSE SDist(res, v)
    IN  /\ ULeq(dist, Half(n))
        /\ (IsEven(n) /\ dist = Half(n)) => ULess(ArgMag, ResMag)

\* C3: a halfway value (2 * (|v| mod n) = n) rounds up in magnitude and
\* keeps the sign of v; below halfway the magnitude is |v| - (|v| mod n).
\* Duration(-1m30s, 1m) is -2m.
C3_HalfwayRoundsUp ==
  (pc = "done" /\ ValidStep) =>
    LET r == URem(ArgMag, n)
        tie == IsEven(n) /\ r = Half(n)
        below == ULess(r, USub(n, r))
    IN  /\ tie => /\ UCarry(ArgMag, Half(n)) = 0
                  /\ ResMag = UAdd(ArgMag, Half(n))
                  /\ SignedStepFn => IsNeg(res) = IsNeg(v)
        /\ below => ResMag = USub(ArgMag, r)
        /\ (fn = "Duration" /\ v = Neg(Dur(0, 1, 30, 0)) /\ n = minute)
             => res = Neg(Dur(0, 2, 0, 0))

\* C4: out-of-range arguments mean "no rounding": with a step n <= 1
\* Int64, Uint64 and Duration, and with a digit count n <= 0 Int64N, Uint64N
\* and DurationN, return the value unchanged, and no such call fails.
C4_NoRoundingUnchanged ==
  /\ (Ended /\ fn \in {"Int64", "Uint64", "Duration"} /\ NoRoundingStep)
       => (pc = "done" /\ res = v)
  /\ (Ended /\ fn \in {"Int64N", "Uint64N", "DurationN"} /\ sig <= 0)
       => (pc = "done" /\ res = v)
  /\ (fn = "DurationN" /\ sig <= 0) => Len(stack) <= 1

\* A call of DurationN with n <= 0 on the least duration has returned it.
C4_Witness ==
  /\ pc = "done" /\ fn = "DurationN" /\ sig <= 0
  /\ v = MinInt64 /\ res = MinInt64

\* C5: rounding to a step is idempotent: rounding the result of Int64 or
\* Uint64 once more to the same step changes nothing.
C5_Idempotent ==
  (pc = "done" /\ round = 2) => res = v

\* The step 10^(D - k) that leaves k of D decimal digits.
SigStep(D, k) == pow10tab[D - k]

\* C6: Int64N and Uint64N round to n significant decimal figures: with D
\* the number of decimal digits of |v|, if D > n the result is the step
\* rounding of v to 10^(D - n), a multiple of 10^(D - n) within half a step
\* of v, and if D <= n the result is v.
C6_SignificantFigures ==
  (Ended /\ fn \in {"Int64N", "Uint64N"} /\ sig > 0) =>
    /\ pc = "done"
    /\ LET D == DecLen(ArgMag)
       IN  IF D > sig
           THEN /\ res = IF fn = "Int64N" THEN Int64(v, SigStep(D, sig))
                                          ELSE Uint64(v, SigStep(D, sig))
                /\ URem(ResMag, SigStep(D, sig)) = Zero
           ELSE res = v

\* floor(b / 10^x) for b < 10^19: zero once 10^x exceeds the table.
Shrink(b, x) == IF x >= pow10tabLen THEN Zero ELSE UDiv(b, pow10tab[x])

\* The step of DurationN(d, k) by the digit groups of the h/m/s rendering,
\* for d >= 1m and k > 0.
GroupStep(d, k) ==
  LET H == DecLen(UDiv(d, hour))
      M == DecLen(UDiv(URem(d, hour), minute))
      Mm == DecLen(UDiv(d, minute))
      cs == UMul(W(100), second)
  IN  IF ULeq(hour, d)
      THEN IF H >= k THEN UMul(hour, pow10tab[H - k])
           ELSE IF M >= k - H THEN UMul(minute, pow10tab[M - (k - H)])
           ELSE Shrink(cs, (k - H) - M)
      ELSE IF Mm >= k THEN UMul(minute, pow10tab[Mm - k])
           ELSE Shrink(cs, k - Mm)

\* C7: for d >= 0 and n > 0, DurationN(d, n) is Int64(d, step) with the
\* step given by the digit groups of hours and minutes, and Int64N(d, n)
\* below one minute; 1h35m42.567s gives 2h, 1h40m, 1h36m, 1h35m40s for
\* n = 1, 2, 3, 4.
C7_DurationNByDigitGroups ==
  (Ended /\ fn = "DurationN" /\ sig > 0 /\ ~IsNeg(v)) =>
    /\ pc = "done"
    /\ res = IF ULeq(minute, v) THEN Int64(v, GroupStep(v, sig))
                                ELSE Int64N(v, sig).val
    /\ v = Dur(1, 35, 42, 567000) =>
         /\ sig = 1 => res = Dur(2, 0, 0, 0)
         /\ sig = 2 => res = Dur(1, 40, 0, 0)
         /\ sig = 3 => res = Dur(1, 36, 0, 0)
         /\ sig = 4 => res = Dur(1, 35, 40, 0)

\* C8: every exponent DurationN, Int64N and Uint64N hand to i64pow10 /
\* u64pow10 has its magnitude within the table (index 0..19), so no call
\* reads outside pow10tab and no call fails.
C8_ExponentsWithinTable ==
  /\ \A e \in exps : -(pow10tabLen - 1) <= e /\ e <= pow10tabLen - 1
  /\ pc # "panic"

\* C9: the digit count is exact: i64digits(v) is the length of the decimal
\* string of |v| (1..19) for every int64 v, the least one included, and
\* u64digits(v) that of v (1..20) for every uint64 v.
C9_DigitCountExact ==
  /\ (pc = "done" /\ fn = "i64digits")
       => (res = W(DecLen(Mag(v))) /\ ULeq(One, res) /\ ULeq(res, W(19)))
  /\ (pc = "done" /\ fn = "u64digits")
       => (res = W(DecLen(v)) /\ ULeq(One, res) /\ ULeq(res, W(20)))

\* C10: DurationN ends with a value for every d and every n > 0: a
\* negative d is negated once, the call recurses at most one level deep,
\* and DurationN(d, n) = -DurationN(-d, n) for every negative d.
C10_RecursesOnce ==
  (fn = "DurationN" /\ sig > 0) =>
    /\ Len(stack) <= 2
    /\ pc # "fatal"
    /\ (pc = "done" /\ IsNeg(v)) =>
         \E o \in {DurationNBody(Neg(v), sig)} :
            o.st = "ok" /\ res = Neg(o.val)

====
